---- MODULE Spec2Model ----
(***************************************************************************)
(* State-machine model of server.js (airtable-pdf-worker): the POST        *)
(* /generate-pdf handler, the shared puppeteer browser, the render         *)
(* pipeline, the artifact file on disk, the Airtable PATCH and the         *)
(* deferred / immediate file cleanup.                                      *)
(*                                                                         *)
(* Node runs the code single-threaded: the code between two awaits is one  *)
(* atomic step.  Every action below is one such step: it starts where a    *)
(* pending operation (launch, newPage, setContent, writeFile, fetch,       *)
(* unlink, a timer) completes and runs to the next suspension point,       *)
(* promise continuations (microtasks) included.                            *)
(***************************************************************************)
EXTENDS Integers, Sequences, FiniteSets, TLC

\* ---------------------------------------------------------------- bounds
NJobs == 2          \* requests the clients submit
MaxTime == 1        \* Date.now() ranges over 0..MaxTime

Jobs == 1..NJobs
NoBrowser == 0      \* browserInstance = null
MaxInstances == 1   \* the one module-level browserInstance

\* request fields the clients send ("" is a missing / empty field)
HtmlValues == {"", "<p>ok</p>"}
RecordIds == {"", "rec1"}
Locations == {"", "siteA"}
\* statuses the record store answers the PATCH with
HttpStatuses == {200, 422}

RenderStages == <<"setViewport", "setContent", "evaluate", "pdf">>

VARIABLES
    now,             \* the clock Date.now() reads
    proc,            \* the node process: "running", "closing" (SIGTERM handler awaits close), "exited"
    browserInstance, \* the module-level browserInstance: NoBrowser or a browser id
    browser,         \* browser process started by job b's launch: "none","starting","alive","dead","closed"
    req,             \* the credential check's input and the fields of req.body of each request
    pc,              \* position of each job's pipeline (generatePromise)
    jobBrowser,      \* the local `browser` of generatePDFFromHTML
    page,            \* the local `page`: "none", "open", "closed", "gone" (died with its browser)
    file,            \* the local fileName of uploadPDFToAirtable
    disk,            \* public/: for each file name, the job whose bytes it holds, or NoJob when absent
    dirExists,       \* whether public/ exists
    store,           \* attachments the record store accepted: <<recordId, fileName>>
    upload,          \* outcome of each job's fetch: "none","pending","ok","rejected","transport","aborted"
    timer,           \* the 45 s timer of the handler: "off","armed","cleared","fired"
    resp,            \* statuses sent on res, in order
    cleanup,         \* the CLEANUP_DELAY_MS timer: "off","armed","unlinking","done"
    fileAtResp,      \* whether the job's own file was on disk when its response was sent
    log              \* what each job's pipeline has done so far, in order (console.log / console.error)

vars == <<now, proc, browserInstance, browser, req, pc, jobBrowser, page, file,
          disk, dirExists, store, upload, timer, resp, cleanup, fileAtResp, log>>

\* ------------------------------------------------------------ file names
MsPerDay == 24 * 60 * 60 * 1000

\* getFullYear / getMonth / getDate of `new Date()`: the calendar day of t
DateStr(t) == t \div MsPerDay

\* `Report-${dateStr}-${location}-${timestamp}.pdf`; recordId is no part of it
generateFileName(location) ==
    [date |-> DateStr(now), location |-> location, timestamp |-> now]

NoFile == [date |-> 0, location |-> "", timestamp |-> -1]
NoJob == 0
AllFiles == {[date |-> DateStr(t), location |-> l, timestamp |-> t] :
                l \in Locations \ {""}, t \in 0..MaxTime}

\* fs.existsSync(filePath) on the directory contents d
existsSync(d, f) == f \in AllFiles /\ d[f] # NoJob

\* fs.promises.unlink(filePath) completing on d: ENOENT on an absent file is
\* caught by cleanupFile, the directory is unchanged
Unlinked(d, f) == IF existsSync(d, f) THEN [d EXCEPT ![f] = NoJob] ELSE d

\* what that unlink rejects with: nothing, or ENOENT on an absent file
UnlinkError(d, f) == IF existsSync(d, f) THEN <<>> ELSE <<"enoent">>

\* C12's mutant: a cleanupFile without its try / catch
CleanupFileRaises_NoCatch(err) == err # <<>>

\* whether cleanupFile lets the unlink's error out: never, the catch of lines
\* 217-219 logs it.  (Let out of the timer callback of line 204 it would be
\* an unhandled rejection, which ends the process.)
CleanupFileRaises(err) == FALSE

\* fs.promises.writeFile(filePath, pdfBuffer) of job j completing on d
Written(d, f, j) == [d EXCEPT ![f] = j]

\* the record store applies the PATCH exactly when it answers 2xx
StoreAccepts(status) == status >= 200 /\ status < 300

\* C2's mutant: the check of line 185 taking any response for a success
ResponseOk_AnyStatus(status) == status >= 200

\* response.ok, as line 185 reads it
ResponseOk(status) == status \in 200..299

\* the bytes at path f are those job j wrote
OwnFile(d, f, j) == f \in AllFiles /\ d[f] = j

\* the result generatePromise resolves with
GenerateResult(success) == IF success THEN 200 ELSE 500

\* C17's mutant: the finally block reached without page.pdf having run
NextStage_SkipPdf(st) == IF st = "evaluate" THEN "closingOk" ELSE "evaluate"

\* the page calls of lines 89-109 in order, then the finally block
NextStage(st) ==
    LET i == CHOOSE k \in 1..Len(RenderStages) : RenderStages[k] = st
    IN IF i < Len(RenderStages) THEN RenderStages[i + 1] ELSE "closingOk"

Running == proc # "exited"

NoReq == [auth |-> FALSE, htmlContent |-> "", recordId |-> "", location |-> ""]

Init ==
    /\ now = 0
    /\ proc = "running"
    /\ browserInstance = NoBrowser
    /\ browser = [b \in Jobs |-> "none"]
    /\ req = [j \in Jobs |-> NoReq]
    /\ pc = [j \in Jobs |-> "idle"]
    /\ jobBrowser = [j \in Jobs |-> NoBrowser]
    /\ page = [j \in Jobs |-> "none"]
    /\ file = [j \in Jobs |-> NoFile]
    /\ disk = [f \in AllFiles |-> NoJob]
    /\ dirExists = FALSE
    /\ store = {}
    /\ upload = [j \in Jobs |-> "none"]
    /\ timer = [j \in Jobs |-> "off"]
    /\ resp = [j \in Jobs |-> <<>>]
    /\ cleanup = [j \in Jobs |-> "off"]
    /\ fileAtResp = [j \in Jobs |-> FALSE]
    /\ log = [j \in Jobs |-> <<>>]

\* ------------------------------------------------ the handler's response
\* C20's mutant: a handler that answers at every settlement
Settle_Unguarded(j, status, f, d) ==
    /\ timer' = [timer EXCEPT ![j] = IF @ = "armed" THEN "cleared" ELSE @]
    /\ resp' = [resp EXCEPT ![j] = Append(@, status)]
    /\ fileAtResp' = [fileAtResp EXCEPT ![j] = OwnFile(d, f, j)]

\* Lines 72-79: the continuation of `await Promise.race([...])`.  It runs once,
\* for whichever promise settles first: clearTimeout, then one response.
\* A later settlement of generatePromise finds the race decided and sends
\* nothing.  f and d are the job's file name and the directory at that moment.
Settle(j, status, f, d) ==
    IF timer[j] = "armed"
    THEN /\ timer' = [timer EXCEPT ![j] = "cleared"]
         /\ resp' = [resp EXCEPT ![j] = Append(@, status)]
         /\ fileAtResp' = [fileAtResp EXCEPT ![j] = OwnFile(d, f, j)]
    ELSE UNCHANGED <<timer, resp, fileAtResp>>

\* C9's mutant: a timer callback that does not reject, so that the handler
\* keeps waiting for generatePromise
TimeoutFire_NoReject(j) ==
    /\ Running
    /\ timer[j] = "armed"
    /\ timer' = [timer EXCEPT ![j] = "fired"]
    /\ UNCHANGED <<log, now, proc, browserInstance, browser, req, pc, jobBrowser, page,
                   file, disk, dirExists, store, upload, resp, cleanup, fileAtResp>>

\* the setTimeout callback of line 56: reject, the handler's catch answers 500
TimeoutFire(j) ==
    /\ Running
    /\ timer[j] = "armed"
    /\ timer' = [timer EXCEPT ![j] = "fired"]
    /\ resp' = [resp EXCEPT ![j] = Append(@, 500)]
    /\ fileAtResp' = [fileAtResp EXCEPT ![j] = OwnFile(disk, file[j], j)]
    /\ UNCHANGED <<log, now, proc, browserInstance, browser, req, pc, jobBrowser, page,
                   file, disk, dirExists, store, upload, cleanup>>

\* ------------------------------------------------------------- admission
\* C11's mutant: a handler without the credential check
Authorized_Always(r) == TRUE

\* line 43: the x-auth-token header equals INTERNAL_AUTH_TOKEN
Authorized(r) == r.auth

\* C15's mutant: line 48 without its `|| !location`
HasRequiredFields_LabelOptional(r) == r.htmlContent # "" /\ r.recordId # ""

\* line 48: htmlContent, recordId and location are all required
HasRequiredFields(r) == r.htmlContent # "" /\ r.recordId # "" /\ r.location # ""

\* app.post('/generate-pdf') up to its first suspension point: the credential
\* and field checks, the 45 s timer, and generatePDFFromHTML -> getBrowser,
\* which either starts a launch (browserInstance is null) or asks the shared
\* browser for a page.  Jobs are numbered in order of arrival.
Submit(j, r) ==
    /\ Running
    /\ pc[j] = "idle"
    /\ \A i \in Jobs : i < j => pc[i] # "idle"
    /\ req' = [req EXCEPT ![j] = r]
    /\ IF ~Authorized(r)
       THEN /\ pc' = [pc EXCEPT ![j] = "rejected"]
            /\ resp' = [resp EXCEPT ![j] = Append(@, 401)]
            /\ UNCHANGED <<timer, browser, jobBrowser>>
       ELSE IF ~HasRequiredFields(r)
       THEN /\ pc' = [pc EXCEPT ![j] = "rejected"]
            /\ resp' = [resp EXCEPT ![j] = Append(@, 400)]
            /\ UNCHANGED <<timer, browser, jobBrowser>>
       ELSE /\ timer' = [timer EXCEPT ![j] = "armed"]
            /\ UNCHANGED resp
            /\ IF browserInstance = NoBrowser
               THEN /\ browser' = [browser EXCEPT ![j] = "starting"]
                    /\ pc' = [pc EXCEPT ![j] = "launching"]
                    /\ UNCHANGED jobBrowser
               ELSE /\ jobBrowser' = [jobBrowser EXCEPT ![j] = browserInstance]
                    /\ pc' = [pc EXCEPT ![j] = "newPage"]
                    /\ UNCHANGED browser
    /\ UNCHANGED <<log, now, proc, browserInstance, page, file, disk, dirExists, store,
                   upload, cleanup, fileAtResp>>

\* -------------------------------------------------------------- getBrowser
\* puppeteer.launch resolves: line 24 assigns browserInstance (whatever it
\* held), getBrowser returns it and browser.newPage() is issued.
LaunchDone(j) ==
    /\ Running
    /\ pc[j] = "launching"
    /\ browser[j] = "starting"
    /\ browser' = [browser EXCEPT ![j] = "alive"]
    /\ browserInstance' = j
    /\ jobBrowser' = [jobBrowser EXCEPT ![j] = j]
    /\ pc' = [pc EXCEPT ![j] = "newPage"]
    /\ UNCHANGED <<log, now, proc, req, page, file, disk, dirExists, store, upload,
                   timer, resp, cleanup, fileAtResp>>

\* puppeteer.launch rejects (30 s launch timeout, spawn failure): the catch of
\* generatePDFFromHTML rethrows, page is null, generatePromise rejects.
LaunchFail(j) ==
    /\ Running
    /\ pc[j] = "launching"
    /\ browser[j] = "starting"
    /\ browser' = [browser EXCEPT ![j] = "dead"]
    /\ pc' = [pc EXCEPT ![j] = "done"]
    /\ Settle(j, 500, file[j], disk)
    /\ UNCHANGED <<log, now, proc, browserInstance, req, jobBrowser, page, file, disk,
                   dirExists, store, upload, cleanup>>

\* ----------------------------------------------------- generatePDFFromHTML
\* browser.newPage() resolves: the page is open, page.setViewport is issued
NewPageDone(j) ==
    /\ Running
    /\ pc[j] = "newPage"
    /\ browser[jobBrowser[j]] = "alive"
    /\ page' = [page EXCEPT ![j] = "open"]
    /\ pc' = [pc EXCEPT ![j] = RenderStages[1]]
    /\ UNCHANGED <<log, now, proc, browserInstance, browser, req, jobBrowser, file, disk,
                   dirExists, store, upload, timer, resp, cleanup, fileAtResp>>

\* browser.newPage() rejects (dead browser, protocol error): page stays null
NewPageFail(j) ==
    /\ Running
    /\ pc[j] = "newPage"
    /\ pc' = [pc EXCEPT ![j] = "done"]
    /\ Settle(j, 500, file[j], disk)
    /\ UNCHANGED <<log, now, proc, browserInstance, browser, req, jobBrowser, page, file,
                   disk, dirExists, store, upload, cleanup>>

InRender(j) == \E k \in 1..Len(RenderStages) : pc[j] = RenderStages[k]

\* setViewport / setContent / evaluate / pdf resolves: the next call is
\* issued; after page.pdf the finally block issues page.close()
RenderStepDone(j) ==
    /\ Running
    /\ InRender(j)
    /\ page[j] = "open"
    /\ browser[jobBrowser[j]] = "alive"
    /\ pc' = [pc EXCEPT ![j] = NextStage(pc[j])]
    /\ log' = IF pc[j] = "pdf" THEN [log EXCEPT ![j] = Append(@, "rendered")] ELSE log
    /\ UNCHANGED <<now, proc, browserInstance, browser, req, jobBrowser, page, file,
                   disk, dirExists, store, upload, timer, resp, cleanup, fileAtResp>>

\* one of them rejects (30 s timeout, engine error): catch, then the finally
\* block issues page.close()
RenderStepFail(j) ==
    /\ Running
    /\ InRender(j)
    /\ pc' = [pc EXCEPT ![j] = "closingErr"]
    /\ UNCHANGED <<log, now, proc, browserInstance, browser, req, jobBrowser, page, file,
                   disk, dirExists, store, upload, timer, resp, cleanup, fileAtResp>>

\* C10's mutant: a finally block that leaves the page open
PageAfterClose_NoClose(p) == p

\* page.close() in the finally block: closes an open page; on a page that
\* died with its browser it throws and the error is only logged
PageAfterClose(p) == IF p = "open" THEN "closed" ELSE p

\* --------------------------------------------------------------- cleanupFile
\* C18's mutant: a catch block that runs the store / upload step again
UploadCatch_Retry(j, f, d) ==
    /\ log' = [log EXCEPT ![j] = Append(@, "rollback")]
    /\ pc' = [pc EXCEPT ![j] = "writing"]
    /\ UNCHANGED <<timer, resp, fileAtResp>>

\* C19's mutant: a catch block that rethrows without cleanupFile
UploadCatch_NoCleanup(j, f, d) ==
    /\ UNCHANGED log
    /\ pc' = [pc EXCEPT ![j] = "done"]
    /\ Settle(j, 500, f, d)

\* The catch block of uploadPDFToAirtable (lines 194-199): cleanupFile checks
\* existsSync and, when the file is there, awaits its unlink; only then is the
\* error rethrown to the handler.  d is the directory at that moment.
UploadCatch(j, f, d) ==
    /\ log' = [log EXCEPT ![j] = Append(@, "rollback")]
    /\ IF existsSync(d, f)
       THEN /\ pc' = [pc EXCEPT ![j] = "rollback"]
            /\ UNCHANGED <<timer, resp, fileAtResp>>
       ELSE /\ pc' = [pc EXCEPT ![j] = "done"]
            /\ Settle(j, 500, f, d)

\* page.close() settles and generatePDFFromHTML returns or rethrows.  With
\* the bytes, uploadPDFToAirtable runs to its first await: generateFileName,
\* existsSync / mkdirSync of public/ (which may throw), writeFile issued.
ClosePageDone(j, mkdirOk) ==
    /\ Running
    /\ pc[j] \in {"closingOk", "closingErr"}
    /\ page' = [page EXCEPT ![j] = PageAfterClose(@)]
    /\ IF pc[j] = "closingErr"
       THEN /\ pc' = [pc EXCEPT ![j] = "done"]
            /\ Settle(j, 500, file[j], disk)
            /\ UNCHANGED <<file, dirExists, log>>
       ELSE LET f == generateFileName(req[j].location) IN
            /\ file' = [file EXCEPT ![j] = f]
            /\ IF dirExists \/ mkdirOk
               THEN /\ dirExists' = TRUE
                    /\ pc' = [pc EXCEPT ![j] = "writing"]
                    /\ log' = [log EXCEPT ![j] = Append(@, "write")]
                    /\ UNCHANGED <<timer, resp, fileAtResp>>
               ELSE /\ UNCHANGED dirExists
                    /\ UploadCatch(j, f, disk)
    /\ UNCHANGED <<now, proc, browserInstance, browser, req, jobBrowser, disk, store,
                   upload, cleanup>>

\* ------------------------------------------------------ uploadPDFToAirtable
\* writeFile resolves: the file holds this job's bytes; the 15 s abort timer
\* is armed and the PATCH is issued
WriteDone(j) ==
    /\ Running
    /\ pc[j] = "writing"
    /\ disk' = Written(disk, file[j], j)
    /\ upload' = [upload EXCEPT ![j] = "pending"]
    /\ pc' = [pc EXCEPT ![j] = "fetching"]
    /\ log' = [log EXCEPT ![j] = @ \o <<"written", "patch">>]
    /\ UNCHANGED <<now, proc, browserInstance, browser, req, jobBrowser, page, file,
                   dirExists, store, timer, resp, cleanup, fileAtResp>>

\* writeFile rejects, having created the file (partial) or not
WriteFail(j, partial) ==
    /\ Running
    /\ pc[j] = "writing"
    /\ disk' = IF partial THEN Written(disk, file[j], j) ELSE disk
    /\ UploadCatch(j, file[j], disk')
    /\ UNCHANGED <<now, proc, browserInstance, browser, req, jobBrowser, page, file,
                   dirExists, store, upload, cleanup>>

\* fetch resolves with the store's response: on response.ok
\* scheduleFileCleanup arms the deferred deletion, true is returned and
\* generatePromise resolves; otherwise response.text() is awaited
FetchResponse(j, status) ==
    /\ Running
    /\ pc[j] = "fetching"
    /\ store' = IF StoreAccepts(status)
                THEN store \cup {<<req[j].recordId, file[j]>>} ELSE store
    /\ upload' = [upload EXCEPT ![j] = IF StoreAccepts(status) THEN "ok" ELSE "rejected"]
    /\ IF ResponseOk(status)
       THEN /\ cleanup' = [cleanup EXCEPT ![j] = "armed"]
            /\ log' = [log EXCEPT ![j] = Append(@, "armed")]
            /\ pc' = [pc EXCEPT ![j] = "done"]
            /\ Settle(j, GenerateResult(TRUE), file[j], disk)
       ELSE /\ pc' = [pc EXCEPT ![j] = "errBody"]
            /\ UNCHANGED <<cleanup, timer, resp, fileAtResp, log>>
    /\ UNCHANGED <<now, proc, browserInstance, browser, req, jobBrowser, page, file,
                   disk, dirExists>>

\* response.text() settles and line 187 throws
ErrBodyDone(j) ==
    /\ Running
    /\ pc[j] = "errBody"
    /\ UploadCatch(j, file[j], disk)
    /\ UNCHANGED <<now, proc, browserInstance, browser, req, jobBrowser, page, file,
                   disk, dirExists, store, upload, cleanup>>

\* fetch rejects with a transport error
FetchError(j) ==
    /\ Running
    /\ pc[j] = "fetching"
    /\ upload' = [upload EXCEPT ![j] = "transport"]
    /\ UploadCatch(j, file[j], disk)
    /\ UNCHANGED <<now, proc, browserInstance, browser, req, jobBrowser, page, file,
                   disk, dirExists, store, cleanup>>

\* the 15 s timer of line 161 fires while the fetch is pending:
\* controller.abort() rejects it with an AbortError
UploadAbort(j) ==
    /\ Running
    /\ pc[j] = "fetching"
    /\ upload' = [upload EXCEPT ![j] = "aborted"]
    /\ UploadCatch(j, file[j], disk)
    /\ UNCHANGED <<now, proc, browserInstance, browser, req, jobBrowser, page, file,
                   disk, dirExists, store, cleanup>>

\* the unlink awaited by the catch block's cleanupFile settles; the error is
\* rethrown and generatePromise rejects
RollbackUnlinkDone(j) ==
    /\ Running
    /\ pc[j] = "rollback"
    /\ disk' = Unlinked(disk, file[j])
    /\ pc' = [pc EXCEPT ![j] = "done"]
    /\ Settle(j, 500, file[j], disk')
    /\ log' = [log EXCEPT ![j] = @ \o UnlinkError(disk, file[j])]
    /\ UNCHANGED <<now, proc, browserInstance, browser, req, jobBrowser, page, file,
                   dirExists, store, upload, cleanup>>

\* --------------------------------------------------------- scheduleFileCleanup
\* the CLEANUP_DELAY_MS timer fires: cleanupFile checks existsSync and issues
\* the unlink, or skips
CleanupTimerFire(j) ==
    /\ Running
    /\ cleanup[j] = "armed"
    /\ cleanup' = [cleanup EXCEPT ![j] =
                      IF existsSync(disk, file[j]) THEN "unlinking" ELSE "done"]
    /\ UNCHANGED <<log, now, proc, browserInstance, browser, req, pc, jobBrowser, page,
                   file, disk, dirExists, store, upload, timer, resp, fileAtResp>>

\* the unlink issued by the timer's cleanupFile settles
DeferredUnlinkDone(j) ==
    /\ Running
    /\ cleanup[j] = "unlinking"
    /\ disk' = Unlinked(disk, file[j])
    /\ cleanup' = [cleanup EXCEPT ![j] = "done"]
    /\ log' = [log EXCEPT ![j] = @ \o UnlinkError(disk, file[j])]
    /\ proc' = IF CleanupFileRaises(UnlinkError(disk, file[j])) THEN "exited" ELSE proc
    /\ UNCHANGED <<now, browserInstance, browser, req, pc, jobBrowser, page,
                   file, dirExists, store, upload, timer, resp, fileAtResp>>

\* ------------------------------------------------------------ environment
\* pages of browser b die with it
PagesWithout(b) ==
    [j \in Jobs |-> IF jobBrowser[j] = b /\ page[j] = "open" THEN "gone" ELSE page[j]]

\* a browser process crashes or disconnects; nothing in server.js observes it
Crash(b) ==
    /\ Running
    /\ browser[b] = "alive"
    /\ browser' = [browser EXCEPT ![b] = "dead"]
    /\ page' = PagesWithout(b)
    /\ UNCHANGED <<log, now, proc, browserInstance, req, pc, jobBrowser, file, disk,
                   dirExists, store, upload, timer, resp, cleanup, fileAtResp>>

\* process.on('SIGTERM'): browserInstance.close() is awaited when it is set
Sigterm ==
    /\ proc = "running"
    /\ proc' = IF browserInstance # NoBrowser THEN "closing" ELSE "exited"
    /\ UNCHANGED <<log, now, browserInstance, browser, req, pc, jobBrowser, page, file,
                   disk, dirExists, store, upload, timer, resp, cleanup, fileAtResp>>

\* browserInstance.close() settles and process.exit(0) runs
BrowserCloseDone ==
    /\ proc = "closing"
    /\ proc' = "exited"
    /\ browser' = [browser EXCEPT ![browserInstance] =
                      IF @ = "alive" THEN "closed" ELSE @]
    /\ page' = PagesWithout(browserInstance)
    /\ UNCHANGED <<log, now, browserInstance, req, pc, jobBrowser, file, disk, dirExists,
                   store, upload, timer, resp, cleanup, fileAtResp>>

\* a millisecond passes
Tick ==
    /\ Running
    /\ now < MaxTime
    /\ now' = now + 1
    /\ UNCHANGED <<log, proc, browserInstance, browser, req, pc, jobBrowser, page, file,
                   disk, dirExists, store, upload, timer, resp, cleanup, fileAtResp>>

\* ------------------------------------------------------------ specification
Requests ==
    [auth : BOOLEAN, htmlContent : HtmlValues, recordId : RecordIds,
     location : Locations]

\* a step of job j's pipeline: a pending operation of the job completes
JobStep(j) ==
    \/ LaunchDone(j)
    \/ LaunchFail(j)
    \/ NewPageDone(j)
    \/ NewPageFail(j)
    \/ RenderStepDone(j)
    \/ RenderStepFail(j)
    \/ \E mkdirOk \in BOOLEAN : ClosePageDone(j, mkdirOk)
    \/ WriteDone(j)
    \/ \E partial \in BOOLEAN : WriteFail(j, partial)
    \/ \E status \in HttpStatuses : FetchResponse(j, status)
    \/ ErrBodyDone(j)
    \/ FetchError(j)
    \/ UploadAbort(j)
    \/ RollbackUnlinkDone(j)

\* the server while it runs: requests, pipelines, timers, crashes, the clock
NextRunning ==
    \/ \E j \in Jobs, r \in Requests : Submit(j, r)
    \/ \E j \in Jobs : JobStep(j)
    \/ \E j \in Jobs : TimeoutFire(j)
    \/ \E j \in Jobs : CleanupTimerFire(j)
    \/ \E j \in Jobs : DeferredUnlinkDone(j)
    \/ \E b \in Jobs : Crash(b)
    \/ Tick

Next ==
    \/ NextRunning
    \/ Sigterm
    \/ BrowserCloseDone

Spec == Init /\ [][Next]_vars

\* a pending operation settles or an armed timer fires
Progress ==
    \E j \in Jobs :
        \/ JobStep(j)
        \/ TimeoutFire(j)
        \/ CleanupTimerFire(j)
        \/ DeferredUnlinkDone(j)

\* The event loop keeps running: as long as some operation is pending (each
\* has its own timeout or is local I/O) or some timer is armed, one of them
\* is eventually delivered.  No fairness is assumed of requests, crashes or
\* the clock.
Fairness == WF_vars(Progress)

FairSpec == Init /\ [][NextRunning]_vars /\ Fairness

\* ================================================================== claims
Admitted(j) == timer[j] # "off"
Answered(j) == resp[j] # <<>>
Success(j) == Answered(j) /\ resp[j][1] = 200
Failed(j) == Answered(j) /\ resp[j][1] = 500
TimedOut(j) == timer[j] = "fired"
UploadFailed(j) == upload[j] \in {"rejected", "transport", "aborted"}
OpenPages == {j \in Jobs : page[j] = "open"}
LiveBrowsers == {b \in Jobs : browser[b] \in {"starting", "alive"}}

\* C1: a job answered with success has its attachment in the record store and
\* its file on disk at that moment; a job answered with a 500 (the overall
\* timeout included) has no file of its own on disk at the response or later.
C1_SuccessOrNoOrphan ==
    \A j \in Jobs :
        /\ Success(j) => <<req[j].recordId, file[j]>> \in store /\ fileAtResp[j]
        /\ Failed(j) => ~fileAtResp[j] /\ ~OwnFile(disk, file[j], j)

\* C2: a job is answered 200 only if the record store had accepted its PATCH
\* with an ok response by then; never after a rejected, aborted, failed or
\* still pending upload.
C2_SuccessOnlyAfterOkUpload ==
    \A j \in Jobs : Success(j) => upload[j] = "ok"

C2_Witness ==
    \E j \in Jobs : Success(j) /\ upload[j] = "ok" /\ pc[j] = "done"

\* C3: when a job's upload step has failed (non-ok status, transport error,
\* abort), the job is answered 500, its file was no longer on disk when that
\* response was sent, and no deferred deletion is armed for it.
C3_UploadFailureRolledBackBeforeResponse ==
    \A j \in Jobs :
        (pc[j] = "done" /\ UploadFailed(j)) =>
            /\ Failed(j)
            /\ ~fileAtResp[j]
            /\ cleanup[j] = "off"

\* C4: two jobs with the same recordId and the same label that generate their
\* file names in the same millisecond get distinct file names.
C4_DistinctFileNames ==
    \A i, j \in Jobs :
        (/\ i # j
         /\ file[i] # NoFile /\ file[j] # NoFile
         /\ req[i].recordId = req[j].recordId
         /\ req[i].location = req[j].location
         /\ file[i].timestamp = file[j].timestamp) => file[i] # file[j]

\* C5: the file of a completed job is on disk from its success response until
\* its own deferred-deletion timer fires.
C5_FileKeptForServingWindow ==
    \A j \in Jobs :
        (Success(j) /\ fileAtResp[j] /\ cleanup[j] = "armed") =>
            existsSync(disk, file[j])

\* C6: the pages open at once never exceed the pool's capacity; with more
\* jobs in flight than the capacity the excess jobs wait or fail.  Checked
\* for the largest capacity the jobs in flight can exceed.
PoolCapacity == NJobs - 1

C6_OpenPagesWithinCapacity == Cardinality(OpenPages) <= PoolCapacity

\* C7: at most one browser process is launched and alive, and every live
\* process is the one browserInstance references.
C7_SingleReferencedBrowser ==
    /\ Cardinality(LiveBrowsers) <= MaxInstances
    /\ \A b \in Jobs : browser[b] = "alive" => browserInstance = b

\* C8: after the overall deadline has answered a job, the job starts no
\* further stage: it does not write its file, send the PATCH or arm a
\* deferred deletion.
StartsStage(j) ==
    \/ pc[j] # "writing" /\ pc'[j] = "writing"
    \/ pc[j] # "fetching" /\ pc'[j] = "fetching"
    \/ cleanup[j] # "armed" /\ cleanup'[j] = "armed"

C8_NoStageAfterTimeout ==
    [][\A j \in Jobs : TimedOut(j) => ~StartsStage(j)]_vars

\* C9: an admitted job is unanswered only while its 45 s timer is still
\* armed; once the timer has fired or been cleared the job has its one
\* definitive answer, whichever stage is in flight.
C9_AnsweredByDeadline ==
    \A j \in Jobs :
        Admitted(j) =>
            \/ timer[j] = "armed" /\ ~Answered(j)
            \/ timer[j] \in {"fired", "cleared"} /\ Answered(j)
                                                 /\ resp[j][1] \in {200, 500}

C9_Witness ==
    /\ \E j \in Jobs : TimedOut(j) /\ Failed(j) /\ pc[j] = "launching"
    /\ \E j \in Jobs : TimedOut(j) /\ Failed(j) /\ pc[j] = "fetching"

\* C10: after a job failed with the overall timeout, its pipeline eventually
\* comes to rest with everything reclaimed: the page is not open, no deferred
\* deletion is pending and no file of the job is on disk, also when the file
\* was written after the timeout.
Reclaimed(j) ==
    /\ pc[j] = "done"
    /\ page[j] # "open"
    /\ cleanup[j] \in {"off", "done"}
    /\ ~OwnFile(disk, file[j], j)

C10_ReclaimedAfterTimeout ==
    \A j \in Jobs : TimedOut(j) ~> Reclaimed(j)

C10_Witness ==
    \E j \in Jobs :
        /\ TimedOut(j)
        /\ Reclaimed(j)
        /\ page[j] = "closed"
        /\ upload[j] = "ok"
        /\ cleanup[j] = "done"

\* C11: a request rejected at admission (failed credential check, empty or
\* missing htmlContent or recordId) is answered at once with 401 or 400 and
\* touches nothing: no browser launched, no page, no file, no PATCH, no timer.
RejectedAtAdmission(j) ==
    /\ pc[j] # "idle"
    /\ ~req[j].auth \/ req[j].htmlContent = "" \/ req[j].recordId = ""

Untouched(j) ==
    /\ timer[j] = "off"
    /\ browser[j] = "none"
    /\ jobBrowser[j] = NoBrowser
    /\ page[j] = "none"
    /\ file[j] = NoFile
    /\ upload[j] = "none"
    /\ cleanup[j] = "off"
    /\ log[j] = <<>>
    /\ \A f \in AllFiles : disk[f] # j

C11_RejectedTouchesNothing ==
    \A j \in Jobs :
        RejectedAtAdmission(j) =>
            /\ resp[j] = IF req[j].auth THEN <<400>> ELSE <<401>>
            /\ Untouched(j)

C11_Witness ==
    /\ \E j \in Jobs : RejectedAtAdmission(j) /\ resp[j] = <<401>>
    /\ \E j \in Jobs : RejectedAtAdmission(j) /\ resp[j] = <<400>>
                                              /\ req[j].location # ""

\* C12: an unlink that finds its file already gone (also when another
\* cleanup removed it between existsSync and the unlink) changes nothing on
\* disk and raises nothing: cleanupFile returns and its caller goes on.
UnlinkOnAbsent(j) ==
    /\ ~existsSync(disk, file[j])
    /\ \/ cleanup[j] = "unlinking" /\ cleanup'[j] # "unlinking"
       \/ pc[j] = "rollback" /\ pc'[j] # "rollback"

SkipOnAbsent(j) ==
    /\ ~existsSync(disk, file[j])
    /\ cleanup[j] = "armed" /\ cleanup'[j] # "armed"

C12_DeleteAbsentIsNoOp ==
    [][\A j \in Jobs :
          /\ UnlinkOnAbsent(j) =>
                /\ disk' = disk
                /\ proc' = proc
                /\ cleanup[j] = "unlinking" => cleanup'[j] = "done"
                /\ pc[j] = "rollback" => pc'[j] = "done"
          /\ SkipOnAbsent(j) => disk' = disk /\ proc' = proc /\ cleanup'[j] = "done"
      ]_vars

C12_Witness ==
    \E i, j \in Jobs :
        /\ i # j /\ file[i] = file[j]
        /\ cleanup[i] = "done" /\ "enoent" \in {log[i][k] : k \in DOMAIN log[i]}
        /\ "rollback" \in {log[j][k] : k \in DOMAIN log[j]} /\ pc[j] = "done"
        /\ proc = "running"

\* C13: a job arriving after the browser died is never handed the dead
\* instance: the pool removes it and starts a fresh one.
C13_NoDeadInstanceHandedOut ==
    [][\A j \in Jobs :
          (pc[j] = "idle" /\ pc'[j] = "newPage") =>
              browser[jobBrowser'[j]] = "alive"]_vars

\* C14: once the process has exited on SIGTERM, no browser process that was
\* launched or was being launched is still running.
C14_AllBrowsersClosedAtExit ==
    proc = "exited" => \A b \in Jobs : browser[b] \notin {"starting", "alive"}

\* C15: a request with a valid credential, htmlContent and recordId but no
\* label is admitted and proceeds to rendering.
WellFormedButLabel(j) ==
    /\ pc[j] # "idle"
    /\ req[j].auth /\ req[j].htmlContent # "" /\ req[j].recordId # ""

Has(j, e) == \E k \in DOMAIN log[j] : log[j][k] = e
Count(j, e) == Cardinality({k \in DOMAIN log[j] : log[j][k] = e})
Pos(j, e) == CHOOSE k \in DOMAIN log[j] : log[j][k] = e
AfterRender(j) == pc[j] \in {"writing", "fetching", "errBody", "rollback", "done"}

\* C16: once generatePDFFromHTML has returned or thrown, on whichever path,
\* the page it opened is no longer open.
C16_PageClosedOnReturn ==
    \A j \in Jobs : AfterRender(j) => page[j] # "open"

C16_Witness ==
    /\ \E j \in Jobs : pc[j] = "writing" /\ page[j] = "closed"
    /\ \E j \in Jobs : pc[j] = "done" /\ page[j] = "closed" /\ file[j] = NoFile

\* C17: within a job the stages come in order: the file is written only after
\* the bytes were rendered and the page closed, the PATCH is sent only after
\* the write completed, and a deletion (deferred or immediate) is decided
\* only with no PATCH pending and after every stage that ran.
C17_StagesInOrder ==
    \A j \in Jobs :
        /\ \A e \in {"rendered", "write", "written", "patch", "armed", "rollback"} :
               Count(j, e) <= 1
        /\ Has(j, "write") =>
               /\ Has(j, "rendered") /\ Pos(j, "rendered") < Pos(j, "write")
               /\ page[j] # "open"
        /\ Has(j, "written") => Has(j, "write") /\ Pos(j, "write") < Pos(j, "written")
        /\ Has(j, "patch") => Has(j, "written") /\ Pos(j, "written") < Pos(j, "patch")
        /\ Has(j, "armed") =>
               /\ Has(j, "patch") /\ Pos(j, "patch") < Pos(j, "armed")
               /\ upload[j] = "ok"
        /\ Has(j, "rollback") =>
               /\ upload[j] # "pending"
               /\ \A e \in {"rendered", "write", "written", "patch"} :
                      Has(j, e) => Pos(j, e) < Pos(j, "rollback")

C17_Witness ==
    /\ \E j \in Jobs : Has(j, "armed") /\ pc[j] = "done"
    /\ \E j \in Jobs : Has(j, "rollback") /\ Has(j, "patch") /\ pc[j] = "done"

\* C18: a job sends at most one PATCH, whatever its outcome.
C18_AtMostOnePatch ==
    \A j \in Jobs : Count(j, "patch") <= 1

C18_Witness ==
    /\ \E j \in Jobs : pc[j] = "done" /\ upload[j] = "rejected" /\ Count(j, "patch") = 1
    /\ \E j \in Jobs : pc[j] = "done" /\ upload[j] = "aborted" /\ Count(j, "patch") = 1

\* C19: a job that entered the store / upload step ends it with exactly one
\* disposition of its file: the deferred deletion armed (only after an ok
\* response) or the immediate deletion run (on any error), never both.
C19_ExactlyOneDisposition ==
    \A j \in Jobs :
        /\ ~(Has(j, "armed") /\ Has(j, "rollback"))
        /\ Has(j, "armed") => upload[j] = "ok" /\ cleanup[j] # "off"
        /\ Has(j, "rollback") => cleanup[j] = "off"
        /\ (pc[j] = "done" /\ file[j] # NoFile) =>
               Has(j, "armed") \/ Has(j, "rollback")

C19_Witness ==
    /\ \E j \in Jobs : pc[j] = "done" /\ Has(j, "armed")
    /\ \E j \in Jobs : pc[j] = "done" /\ Has(j, "rollback") /\ ~Has(j, "write")

\* C20: every admitted request is answered exactly once: after the deadline
\* answered, the pipeline's settlement sends nothing more, and after the
\* pipeline answered, the cleared timer never fires.
C20_AnsweredOnce ==
    /\ [](\A j \in Jobs : Len(resp[j]) <= 1)
    /\ [][\A j \in Jobs :
             timer[j] \in {"fired", "cleared"} =>
                 timer'[j] = timer[j] /\ resp'[j] = resp[j]]_vars

C20_Witness ==
    /\ \E j \in Jobs : timer[j] = "fired" /\ pc[j] = "done" /\ upload[j] = "ok"
                                          /\ Len(resp[j]) = 1
    /\ \E j \in Jobs : timer[j] = "cleared" /\ pc[j] = "done" /\ Len(resp[j]) = 1

====
